---- MODULE Spec2Model ----
(***************************************************************************)
(* Model of src/doaj_api.py: the DOAJ article search collector.            *)
(*                                                                         *)
(* search_doaj(query, year_from, year_to, size) issues outbound GET        *)
(* requests to the DOAJ search endpoint and accumulates normalized article *)
(* records.  The upstream is the environment: every outbound call either   *)
(* fails (timeout, non-success status, malformed JSON) or returns a page   *)
(* of raw records.                                                         *)
(*                                                                         *)
(* An article is modelled by its Title, Year and URL.  Journal and Authors *)
(* are copied from the raw record in the same way as Title and take no     *)
(* part in the control flow; the query string is copied verbatim into      *)
(* every request and is left out of the request records.                   *)
(***************************************************************************)
EXTENDS Integers, Sequences, FiniteSets, TLC

----------------------------------------------------------------------------
(* Bounds of the model *)

MaxYear == 2

MaxSize == 3

MaxPerYear == 3

MaxPageLen == 2

MaxStrLen == 2

MaxLinks == 2

----------------------------------------------------------------------------
(* Optional[int]: None is the empty set, a value v is {v} *)

None == {}

Some(v) == {v}

The(o) == CHOOSE v \in o : TRUE

\* Python truthiness of an Optional[int]: None and 0 are falsy
Truthy(o) == o # None /\ o # Some(0)

Min(a, b) == IF a < b THEN a ELSE b

----------------------------------------------------------------------------
(* Raw upstream values *)

DigitChars == <<"0", "1", "2", "3", "4", "5", "6", "7", "8", "9">>

DecDigits == {DigitChars[i] : i \in 1..10}

DigitVal(c) == (CHOOSE i \in 1..10 : DigitChars[i] = c) - 1

\* characters str.isdigit accepts: the decimal digits and digit-like
\* characters such as SUPERSCRIPT TWO, written "sup2"
UnicodeDigits == DecDigits \cup {"sup2"}

\* the bibjson "year" field: missing key, JSON string, JSON number, JSON null
YMissing == [kind |-> "missing", chars |-> <<>>, num |-> 0]

YStr(s) == [kind |-> "str", chars |-> s, num |-> 0]

YNum(n) == [kind |-> "num", chars |-> <<>>, num |-> n]

YNull == [kind |-> "null", chars |-> <<>>, num |-> 0]

\* the bibjson "link" field: missing key, JSON list of entries, JSON null;
\* an entry is the Optional url it carries
LMissing == [kind |-> "missing", items |-> <<>>]

LList(es) == [kind |-> "list", items |-> es]

LNull == [kind |-> "null", items |-> <<>>]

RECURSIVE Dec(_)
\* decimal rendering of a natural number
Dec(n) == IF n < 10 THEN <<DigitChars[n + 1]>>
          ELSE Dec(n \div 10) \o <<DigitChars[(n % 10) + 1]>>

\* str(bibjson.get("year", ""))
PyStr(v) == CASE v.kind = "missing" -> <<>>
              [] v.kind = "str" -> v.chars
              [] v.kind = "num" -> IF v.num < 0 THEN <<"-">> \o Dec(-v.num)
                                   ELSE Dec(v.num)
              [] v.kind = "null" -> <<"N", "o", "n", "e">>

\* str.isdigit: non-empty and every character is a digit character
IsDigit(s) == Len(s) > 0 /\ \A i \in 1..Len(s) : s[i] \in UnicodeDigits

RECURSIVE DecValue(_)
DecValue(s) == IF s = <<>> THEN 0
               ELSE 10 * DecValue(SubSeq(s, 1, Len(s) - 1)) + DigitVal(s[Len(s)])

\* int(bibjson.get("year", 0)) raises ValueError on a digit character that
\* is not a decimal digit
IntRaises(v) == v.kind = "str" /\ \E i \in 1..Len(v.chars) : v.chars[i] \notin DecDigits

PyInt(v) == IF v.kind = "num" THEN v.num ELSE DecValue(v.chars)

\* "Year": int(...) if str(...).isdigit() else 0
YearRaises(v) == IsDigit(PyStr(v)) /\ IntRaises(v)

\* variant of YearOut: no year when the field does not parse
YearOutNone(v) == IF IsDigit(PyStr(v)) THEN Some(PyInt(v)) ELSE None

YearOut(v) == IF IsDigit(PyStr(v)) THEN Some(PyInt(v)) ELSE Some(0)

\* "URL": bibjson.get("link", [{}])[0].get("url", "")
UrlRaises(l) == l.kind = "null" \/ (l.kind = "list" /\ l.items = <<>>)

UrlOut(l) == IF l.kind = "missing" THEN ""
             ELSE IF l.items[1] = None THEN "" ELSE The(l.items[1])

Raises(rec) == YearRaises(rec.year) \/ UrlRaises(rec.link)

Normalize(rec) == [Title |-> rec.title, Year |-> YearOut(rec.year), URL |-> UrlOut(rec.link)]

----------------------------------------------------------------------------
(* State of one call of search_doaj and of its upstream *)

VARIABLES
    query,      \* the query parameter of the request: Optional[str]
    prev,       \* history: the requests and the result of an earlier call
                \* with the same arguments
    year_from,  \* argument: Optional[int]
    year_to,    \* argument: Optional[int]
    size,       \* argument: int
    results,    \* the local list results
    origin,     \* history: for each element of results, the year constraint
                \* of the request whose response it came from
    pc,         \* "start", "unranged", "ranged" (a request is in flight),
                \* "done" (results returned), "raised" (an exception escaped)
    year,       \* loop variable of the descending year loop
    page,       \* loop variable of the page loop
    reqs,       \* history: the outbound requests issued so far
    resps,      \* history: per request, -1 for a failure, else the number
                \* of records on the page returned
    db,         \* a well-behaved upstream: number of records held per year
    raw,        \* a raw upstream record handed to the normalization
    article     \* the outcome of normalizing raw

vars == <<query, prev, year_from, year_to, size, results, origin, pc, year,
          page, reqs, resps, db, raw, article>>

MaxPageSize == 100

YearDom == 0..MaxYear

OptYears == {None} \cup {Some(y) : y \in YearDom}

SeqUpTo(S, n) == UNION {[1..k -> S] : k \in 0..n}

\* raw records an arbitrary upstream may put on a page: records of two
\* different years, a record without a year, and a record with an empty
\* link list
RawRecords ==
    {[title |-> <<0, 0>>, year |-> yf, link |-> LMissing] :
        yf \in {YMissing, YStr(<<"1">>), YStr(<<"2">>)}}
    \cup {[title |-> <<0, 0>>, year |-> YMissing, link |-> LList(<<>>)]}

Pages == SeqUpTo(RawRecords, MaxPageLen)

\* no normalization has run yet
NoArticle == [kind |-> "none", yearRaised |-> FALSE, Year |-> None,
              urlRaised |-> FALSE, URL |-> ""]

NoRaw == [title |-> <<0, 0>>, year |-> YMissing, link |-> LMissing]

\* no earlier call
NoPrev == [calls |-> 0, reqs |-> <<>>, results |-> <<>>]

InitCall ==
    /\ query = Some("q")
    /\ prev = NoPrev
    /\ year_from \in OptYears
    /\ year_to \in OptYears
    /\ size \in -1..MaxSize
    /\ results = <<>>
    /\ origin = <<>>
    /\ pc = "start"
    /\ year = 0
    /\ page = 0
    /\ reqs = <<>>
    /\ resps = <<>>

Init ==
    /\ InitCall
    /\ db = [y \in YearDom |-> 0]
    /\ raw = NoRaw
    /\ article = NoArticle

\* results.append(...)
Push(s, x) == Append(s, x)

\* pageSize of a year-constrained request
PageSize(sz, n) == Min(MaxPageSize, sz - n)

\* variant of NextYear: the range stepping upwards
NextYearUp(y) == y + 1

\* step of range(year_to, year_from - 1, -1)
NextYear(y) == y - 1

Request(y, p, ps) == [year |-> y, page |-> p, pageSize |-> ps]

RECURSIVE Collect(_, _, _, _, _)
\* the loop over the records of a page: append the normalized record; an
\* exception of the normalization escapes; with capped, stop at size
Collect(rs, og, recs, y, capped) ==
    IF recs = <<>> THEN [results |-> rs, origin |-> og, raised |-> FALSE]
    ELSE IF Raises(Head(recs)) THEN [results |-> rs, origin |-> og, raised |-> TRUE]
    ELSE LET rs2 == Push(rs, Normalize(Head(recs)))
             og2 == Push(og, y)
         IN  IF capped /\ Len(rs2) >= size
             THEN [results |-> rs2, origin |-> og2, raised |-> FALSE]
             ELSE Collect(rs2, og2, Tail(recs), y, capped)

\* variant of EnterYear: the page loop's condition does not test the cap
EnterYearNoCap(y, rs) ==
    IF y >= The(year_from)
    THEN /\ year' = y
         /\ page' = 1
         /\ reqs' = Append(reqs, Request(Some(y), 1, PageSize(size, Len(rs))))
         /\ pc' = "ranged"
    ELSE /\ pc' = "done"
         /\ UNCHANGED <<year, page, reqs>>

\* enter the body of the year loop for year y with rs accumulated: issue
\* page 1 of year y when the page loop's condition holds; when the range is
\* used up, or the cap is reached (no later year issues a request), return
EnterYear(y, rs) ==
    IF y >= The(year_from) /\ Len(rs) < size
    THEN /\ year' = y
         /\ page' = 1
         /\ reqs' = Append(reqs, Request(Some(y), 1, PageSize(size, Len(rs))))
         /\ pc' = "ranged"
    ELSE /\ pc' = "done"
         /\ UNCHANGED <<year, page, reqs>>

\* search_doaj is entered
Start ==
    /\ pc = "start"
    /\ IF ~Truthy(year_from) \/ ~Truthy(year_to)
       THEN /\ reqs' = Append(reqs, Request(None, 1, size))
            /\ pc' = "unranged"
            /\ UNCHANGED <<year, page>>
       ELSE EnterYear(The(year_to), results)
    /\ UNCHANGED <<query, prev, year_from, year_to, size, results, origin, resps, db, raw, article>>

\* variant of UnrangedFail: the exception is not caught
UnrangedFailRaise ==
    /\ pc = "unranged"
    /\ resps' = Append(resps, -1)
    /\ pc' = "raised"
    /\ UNCHANGED <<query, prev, year_from, year_to, size, results, origin, year, page, reqs,
                   db, raw, article>>

\* the unranged request fails: return []
UnrangedFail ==
    /\ pc = "unranged"
    /\ resps' = Append(resps, -1)
    /\ results' = <<>>
    /\ origin' = <<>>
    /\ pc' = "done"
    /\ UNCHANGED <<query, prev, year_from, year_to, size, year, page, reqs, db, raw, article>>

\* the unranged request returns a page: every record is appended
UnrangedPage(pg) ==
    /\ pc = "unranged"
    /\ resps' = Append(resps, Len(pg))
    /\ LET c == Collect(results, origin, pg, None, FALSE)
       IN  /\ results' = c.results
           /\ origin' = c.origin
           /\ pc' = IF c.raised THEN "raised" ELSE "done"
    /\ UNCHANGED <<query, prev, year_from, year_to, size, year, page, reqs, db, raw, article>>

\* variant of RangedFail: the failed request is issued again
RangedFailRetry ==
    /\ pc = "ranged"
    /\ resps' = Append(resps, -1)
    /\ reqs' = Append(reqs, reqs[Len(reqs)])
    /\ UNCHANGED <<query, prev, year_from, year_to, size, results, origin, pc,
                   year, page, db, raw, article>>

\* variant of RangedFail: return instead of break
RangedFailReturn ==
    /\ pc = "ranged"
    /\ resps' = Append(resps, -1)
    /\ pc' = "done"
    /\ UNCHANGED <<query, prev, year_from, year_to, size, results, origin, year, page, reqs,
                   db, raw, article>>

\* a year-constrained request fails: break out of the page loop
RangedFail ==
    /\ pc = "ranged"
    /\ resps' = Append(resps, -1)
    /\ EnterYear(NextYear(year), results)
    /\ UNCHANGED <<query, prev, year_from, year_to, size, results, origin, db, raw, article>>

\* variant of RangedEmpty: an empty page does not end the year
RangedEmptyNextPage ==
    /\ pc = "ranged"
    /\ resps' = Append(resps, 0)
    /\ page' = page + 1
    /\ reqs' = Append(reqs, Request(Some(year), page + 1, PageSize(size, Len(results))))
    /\ UNCHANGED <<query, prev, year_from, year_to, size, results, origin, pc,
                   year, db, raw, article>>

\* a year-constrained request returns no records: break out of the page loop
RangedEmpty ==
    /\ pc = "ranged"
    /\ resps' = Append(resps, 0)
    /\ EnterYear(NextYear(year), results)
    /\ UNCHANGED <<query, prev, year_from, year_to, size, results, origin, db, raw, article>>

\* variant of RangedPage: the records of a page are all appended and the
\* next page is asked for without testing the cap
RangedPageNoCap(pg) ==
    /\ pc = "ranged"
    /\ pg # <<>>
    /\ resps' = Append(resps, Len(pg))
    /\ LET c == Collect(results, origin, pg, Some(year), TRUE)
       IN  /\ results' = c.results
           /\ origin' = c.origin
           /\ IF c.raised
              THEN /\ pc' = "raised"
                   /\ UNCHANGED <<year, page, reqs>>
              ELSE /\ page' = page + 1
                   /\ reqs' = Append(reqs, Request(Some(year), page + 1,
                                                   PageSize(size, Len(c.results))))
                   /\ UNCHANGED <<year, pc>>
    /\ UNCHANGED <<query, prev, year_from, year_to, size, db, raw, article>>

\* a year-constrained request returns records: append up to the cap, then
\* page += 1 and the page loop's condition is tested again
RangedPage(pg) ==
    /\ pc = "ranged"
    /\ pg # <<>>
    /\ resps' = Append(resps, Len(pg))
    /\ LET c == Collect(results, origin, pg, Some(year), TRUE)
       IN  /\ results' = c.results
           /\ origin' = c.origin
           /\ IF c.raised
              THEN /\ pc' = "raised"
                   /\ UNCHANGED <<year, page, reqs>>
              ELSE IF Len(c.results) < size
              THEN /\ page' = page + 1
                   /\ reqs' = Append(reqs, Request(Some(year), page + 1,
                                                   PageSize(size, Len(c.results))))
                   /\ UNCHANGED <<year, pc>>
              ELSE \* cap reached: the page loop of every later year is
                   \* skipped at once and results is returned
                   /\ page' = page + 1
                   /\ pc' = "done"
                   /\ UNCHANGED <<year, reqs>>
    /\ UNCHANGED <<query, prev, year_from, year_to, size, db, raw, article>>

Next ==
    \/ Start
    \/ UnrangedFail
    \/ \E pg \in Pages : UnrangedPage(pg)
    \/ RangedFail
    \/ RangedEmpty
    \/ \E pg \in Pages : RangedPage(pg)

Spec == Init /\ [][Next]_vars

\* every outbound call returns: a step that is possible is eventually taken
SpecFair == Init /\ [][Next]_vars /\ WF_vars(Next)

----------------------------------------------------------------------------
(* A well-behaved upstream: a fixed ordered list of records per year, served
   page by page; no failures.  Used with both bounds given and non-zero. *)

DbRecord(y, i) == [title |-> <<y, i>>, year |-> YStr(Dec(y)), link |-> LMissing]

YearList(d, y) == [i \in 1..d[y] |-> DbRecord(y, i)]

\* request (year y, page p, pageSize s): positions (p-1)*s+1 .. p*s
ServePage(d, y, p, s) ==
    SubSeq(YearList(d, y), (p - 1) * s + 1, Min(p * s, d[y]))

LastReq == reqs[Len(reqs)]

Served == ServePage(db, The(LastReq.year), LastReq.page, LastReq.pageSize)

InitDB ==
    /\ InitCall
    /\ Truthy(year_from)
    /\ Truthy(year_to)
    /\ db \in [YearDom -> 0..MaxPerYear]
    /\ raw = NoRaw
    /\ article = NoArticle

DBEmpty ==
    /\ pc = "ranged"
    /\ Served = <<>>
    /\ RangedEmpty

DBPage ==
    /\ pc = "ranged"
    /\ Served # <<>>
    /\ RangedPage(Served)

NextDB ==
    \/ Start
    \/ DBEmpty
    \/ DBPage

SpecDB == InitDB /\ [][NextDB]_vars

----------------------------------------------------------------------------
(* The record normalization on its own: one raw record in, the outcome of
   the "Year" and "URL" expressions out *)

NormChars == {"0", "1", "2", "n", "sup2"}

YearFields ==
    {YMissing, YNull, YStr(<<"n", "/", "a">>)}
        \cup {YStr(s) : s \in SeqUpTo(NormChars, MaxStrLen)}
        \cup {YNum(n) : n \in -1..MaxYear}

LinkEntries == {None, Some("u1"), Some("u2")}

LinkFields ==
    {LMissing, LNull} \cup {LList(es) : es \in SeqUpTo(LinkEntries, MaxLinks)}

InitNorm ==
    /\ raw \in {[title |-> <<0, 0>>, year |-> yf, link |-> lf] :
                   yf \in YearFields, lf \in LinkFields}
    /\ article = NoArticle
    /\ query = Some("q")
    /\ prev = NoPrev
    /\ year_from = None
    /\ year_to = None
    /\ size = 0
    /\ results = <<>>
    /\ origin = <<>>
    /\ pc = "norm"
    /\ year = 0
    /\ page = 0
    /\ reqs = <<>>
    /\ resps = <<>>
    /\ db = [y \in YearDom |-> 0]

\* evaluate the dict literal appended to results for raw
NormalizeRecord ==
    /\ pc = "norm"
    /\ article = NoArticle
    /\ article' =
         [kind |-> IF Raises(raw) THEN "raise" ELSE "ok",
          yearRaised |-> YearRaises(raw.year),
          Year |-> IF YearRaises(raw.year) THEN None ELSE YearOut(raw.year),
          urlRaised |-> UrlRaises(raw.link),
          URL |-> IF UrlRaises(raw.link) THEN "" ELSE UrlOut(raw.link)]
    /\ UNCHANGED <<query, prev, year_from, year_to, size, results, origin, pc, year, page,
                   reqs, resps, db, raw>>

NextNorm == NormalizeRecord

SpecNorm == InitNorm /\ [][NextNorm]_vars

----------------------------------------------------------------------------
(* Two calls with the same arguments against the same well-behaved upstream *)

\* variant of Again: results lives on from the earlier call
AgainKeepResults ==
    /\ pc = "done"
    /\ prev.calls = 0
    /\ prev' = [calls |-> 1, reqs |-> reqs, results |-> results]
    /\ reqs' = <<>>
    /\ resps' = <<>>
    /\ year' = 0
    /\ page' = 0
    /\ pc' = "start"
    /\ UNCHANGED <<query, year_from, year_to, size, results, origin, db, raw, article>>

\* search_doaj has returned and is called again with the same arguments:
\* results and the loop variables are locals of the new call
Again ==
    /\ pc = "done"
    /\ prev.calls = 0
    /\ prev' = [calls |-> 1, reqs |-> reqs, results |-> results]
    /\ results' = <<>>
    /\ origin' = <<>>
    /\ reqs' = <<>>
    /\ resps' = <<>>
    /\ year' = 0
    /\ page' = 0
    /\ pc' = "start"
    /\ UNCHANGED <<query, year_from, year_to, size, db, raw, article>>

NextTwice ==
    \/ Start
    \/ DBEmpty
    \/ DBPage
    \/ Again

SpecTwice == InitDB /\ [][NextTwice]_vars

----------------------------------------------------------------------------
(* The /search endpoint: api_search in front of search_doaj *)

InitApi ==
    /\ query \in {None, Some("q")}
    /\ prev = NoPrev
    /\ year_from \in OptYears
    /\ year_to \in OptYears
    /\ size \in -1..MaxSize
    /\ results = <<>>
    /\ origin = <<>>
    /\ pc = "request"
    /\ year = 0
    /\ page = 0
    /\ reqs = <<>>
    /\ resps = <<>>
    /\ db = [y \in YearDom |-> 0]
    /\ raw = NoRaw
    /\ article = NoArticle

\* variant of ApiSearch: query declared as an optional parameter
ApiSearchOptional ==
    /\ pc = "request"
    /\ pc' = "start"
    /\ UNCHANGED <<query, prev, year_from, year_to, size, results, origin, year,
                   page, reqs, resps, db, raw, article>>

\* GET /search: query is declared Query(...), a required parameter, so a
\* request without it is answered with a validation error and the body of
\* api_search does not run; otherwise the body calls search_doaj
ApiSearch ==
    /\ pc = "request"
    /\ pc' = IF query = None THEN "invalid" ELSE "start"
    /\ UNCHANGED <<query, prev, year_from, year_to, size, results, origin, year,
                   page, reqs, resps, db, raw, article>>

NextApi ==
    \/ ApiSearch
    \/ Start
    \/ UnrangedFail
    \/ \E pg \in Pages : UnrangedPage(pg)
    \/ RangedFail
    \/ RangedEmpty
    \/ \E pg \in Pages : RangedPage(pg)

SpecApi == InitApi /\ [][NextApi]_vars

----------------------------------------------------------------------------
(* Properties *)

IsPrefix(a, b) == Len(a) <= Len(b) /\ SubSeq(b, 1, Len(a)) = a

BothGiven == year_from # None /\ year_to # None

AllFailed == resps # <<>> /\ \A i \in 1..Len(resps) : resps[i] = -1

\* C1: for size >= 0 the sequence search_doaj returns has at most size
\* elements, on the unranged and on the ranged path, whatever the upstream
\* puts on a page.
C1_LengthAtMostSize ==
    (pc = "done" /\ size >= 0) => Len(results) <= size

RECURSIVE ConcatDown(_, _, _)
\* the per-year lists of d from year hi down to year lo, concatenated
ConcatDown(d, hi, lo) ==
    IF hi < lo THEN <<>> ELSE YearList(d, hi) \o ConcatDown(d, hi - 1, lo)

ExpectedPrefix ==
    LET all == ConcatDown(db, The(year_to), The(year_from))
        n == IF size < 0 THEN 0 ELSE Min(size, Len(all))
    IN  [i \in 1..n |-> Normalize(all[i])]

\* C2: against an upstream that serves fixed per-year lists page by page,
\* the ranged search returns the first min(size, total) records of the
\* per-year lists concatenated from year_to down to year_from.
C2_ResultIsUpstreamPrefix ==
    pc = "done" => results = ExpectedPrefix

ReqYearsDescend ==
    \A i \in 1..Len(reqs) :
        /\ reqs[i].year # None
        /\ The(reqs[i].year) <= The(year_to)
        /\ The(reqs[i].year) >= The(year_from)
        /\ i = 1 => reqs[i].year = year_to
        /\ i > 1 => The(reqs[i].year) \in {The(reqs[i - 1].year), The(reqs[i - 1].year) - 1}

FilterHonoured ==
    \A i \in 1..Len(results) :
        origin[i] # None => results[i].Year \in {origin[i], Some(0)}

\* C4: with both year_from and year_to supplied (any integers, 0 included)
\* and an upstream that honours the year filter, every record returned has
\* a year within [year_from, year_to] or an absent year (None, or 0 as this
\* code writes it).
C4_YearsInRange ==
    (pc = "done" /\ BothGiven /\ FilterHonoured) =>
        \A i \in 1..Len(results) :
            \/ results[i].Year = None
            \/ results[i].Year = Some(0)
            \/ /\ The(results[i].Year) >= The(year_from)
               /\ The(results[i].Year) <= The(year_to)

\* C5: with neither bound given the search keeps requesting pages until
\* size records are collected or a page comes back empty (or a call fails):
\* it never returns fewer than size records after a non-empty page.
C5_UnrangedPagesUntilSize ==
    (pc = "done" /\ year_from = None /\ year_to = None /\ resps # <<>>) =>
        \/ Len(results) >= size
        \/ resps[Len(resps)] <= 0

\* C6: with exactly one bound given the missing bound is defaulted
\* (year_from to 1900, year_to to the current calendar year) and every
\* outbound request carries a single-year constraint inside that range.  The
\* current calendar year is above every year of the model, so for an absent
\* year_to only the lower end is stated.
C6_OneBoundDefaulted ==
    ((year_from = None) # (year_to = None)) =>
        \A i \in 1..Len(reqs) :
            /\ reqs[i].year # None
            /\ The(reqs[i].year) >= (IF year_from = None THEN 1900 ELSE The(year_from))
            /\ year_to # None => The(reqs[i].year) <= The(year_to)

\* C7: in the ranged path a failed outbound call is not raised, leaves the
\* accumulated records in place, abandons the rest of its year and resumes
\* with page 1 of the next lower year, if there is one (the cap is not
\* reached while a request is in flight); and results only ever grows at
\* its end, so the records stay in the final result in their positions.
C7_RangedFailureAbsorbed ==
    [][ /\ pc = "ranged" => IsPrefix(results, results')
        /\ (pc = "ranged" /\ resps' = Append(resps, -1)) =>
              /\ pc' # "raised"
              /\ results' = results
              /\ IF year - 1 >= The(year_from)
                 THEN /\ pc' = "ranged"
                      /\ Len(reqs') = Len(reqs) + 1
                      /\ reqs'[Len(reqs')].year = Some(year - 1)
                      /\ reqs'[Len(reqs')].page = 1
                 ELSE /\ pc' = "done"
                      /\ reqs' = reqs ]_vars

C7_Witness ==
    /\ pc = "ranged"
    /\ results # <<>>
    /\ resps # <<>>
    /\ resps[Len(resps)] = -1
    /\ page = 1
    /\ LastReq.year = Some(The(origin[Len(origin)]) - 1)

\* C8: if every outbound call fails, no exception escapes and the sequence
\* returned is empty, on the unranged and on the ranged path.
C8_AllFailedReturnsEmpty ==
    AllFailed => (pc # "raised" /\ results = <<>>)

C8_Witness ==
    /\ pc = "done"
    /\ AllFailed
    /\ Len(resps) >= 2

AllDecimal(s) == Len(s) > 0 /\ \A i \in 1..Len(s) : s[i] \in DecDigits

HasNonDigit(s) == s = <<>> \/ \E i \in 1..Len(s) : s[i] \notin UnicodeDigits

RECURSIVE StripZeros(_)
StripZeros(s) == IF Len(s) > 1 /\ s[1] = "0" THEN StripZeros(Tail(s)) ELSE s

YearIsValueOf(s) ==
    /\ ~article.yearRaised
    /\ article.Year # None
    /\ The(article.Year) >= 0
    /\ Dec(The(article.Year)) = StripZeros(s)

RECURSIVE FirstUrl(_)
\* the url of the first entry that has one, "" if no entry has one
FirstUrl(es) ==
    IF es = <<>> THEN ""
    ELSE IF Head(es) # None THEN The(Head(es)) ELSE FirstUrl(Tail(es))

\* C10: the URL put out is the url of the first link entry that has a url,
\* and "" when no entry has one, also for an absent or an empty link list;
\* normalizing such a record does not raise.
C10_FirstUrlNeverRaises ==
    (article.kind # "none" /\ raw.link.kind \in {"missing", "list"}) =>
        /\ ~article.urlRaised
        /\ article.URL = FirstUrl(raw.link.items)

C12_MissingQueryNoCall ==
    query = None => (reqs = <<>> /\ pc \in {"request", "invalid"})

C12_Witness ==
    /\ query = None
    /\ pc = "invalid"

\* C13: every outbound request, on the unranged and on the ranged path, asks
\* for pageSize = min(100, size - number of records accumulated so far),
\* which lies between 1 and 100.  Stated of the request in flight, whose
\* accumulated count is Len(results).
C13_PageSizeIsCappedRemainder ==
    pc \in {"unranged", "ranged"} =>
        /\ LastReq.pageSize = Min(100, size - Len(results))
        /\ LastReq.pageSize >= 1
        /\ LastReq.pageSize <= 100

\* C14: in the ranged path the first request of every year asks for page 1,
\* the following requests of that year ask for the next page each, and no
\* (year, page) pair is requested twice in a call, also after a failure.
C14_PagesInOrderNoRetry ==
    /\ \A i \in 1..Len(reqs) :
          reqs[i].year # None =>
              IF i > 1 /\ reqs[i - 1].year = reqs[i].year
              THEN reqs[i].page = reqs[i - 1].page + 1
              ELSE reqs[i].page = 1
    /\ \A i, j \in 1..Len(reqs) :
          (i < j /\ reqs[i].year # None)
              => <<reqs[i].year, reqs[i].page>> # <<reqs[j].year, reqs[j].page>>

C14_Witness ==
    /\ Len(reqs) >= 3
    /\ Len(resps) >= 2
    /\ reqs[1].year = reqs[2].year
    /\ reqs[2].page = 2
    /\ resps[2] = -1
    /\ reqs[3].year # reqs[2].year
    /\ reqs[3].page = 1

RangedCall == Truthy(year_from) /\ Truthy(year_to)

\* C15: in the ranged path, once the number of accumulated records has
\* reached size no further outbound request is issued, neither by the step
\* that reaches the cap nor by any later one.
C15_NoRequestAfterCap ==
    [][ RangedCall =>
          /\ Len(results) >= size => reqs' = reqs
          /\ Len(results') >= size => reqs' = reqs ]_vars

C15_Witness ==
    /\ RangedCall
    /\ pc = "done"
    /\ size >= 2
    /\ Len(results) = size
    /\ Len(reqs) >= 2
    /\ year > The(year_from)

Returned == pc \in {"done", "raised"}

\* C16: search_doaj terminates whenever every outbound call returns; a
\* ranged call with size >= 1 and year_from <= year_to issues at most
\* size + (year_to - year_from + 1) requests, an unranged call exactly one.
C16_TerminatesWithinBound ==
    /\ [](RangedCall /\ size >= 1 /\ The(year_from) <= The(year_to)
            => Len(reqs) <= size + (The(year_to) - The(year_from) + 1))
    /\ [](~RangedCall => Len(reqs) = (IF pc = "start" THEN 0 ELSE 1))
    /\ <>Returned

C16_Witness ==
    /\ RangedCall
    /\ pc = "done"
    /\ Len(reqs) >= 4

\* C17: with both bounds given, non-zero and year_from > year_to, and in any
\* ranged call with size <= 0, no outbound request is issued and the empty
\* sequence is returned.
C17_EmptyRangeNoCall ==
    (RangedCall /\ (The(year_from) > The(year_to) \/ size <= 0)) =>
        /\ reqs = <<>>
        /\ results = <<>>
        /\ pc \in {"start", "done"}

C17_Witness ==
    /\ RangedCall
    /\ The(year_from) > The(year_to)
    /\ size >= 1
    /\ pc = "done"

====
